---- MODULE Spec2Model ----
(***************************************************************************)
(* A model of the node / container data model of omegaconf:                *)
(*   - the scalar ValueNode family of omegaconf/nodes.py (set_value and    *)
(*     the per-kind validate_and_convert), and                             *)
(*   - the sequence container ListConfig of omegaconf/listconfig.py.       *)
(*                                                                         *)
(* Raw Python values are records [t, n, s, e]: t is the runtime type, n a  *)
(* number (an int, a bool as 0/1, a float in tenths, an enum member's      *)
(* value, a container's address), s a string as a sequence of characters   *)
(* (or an enum member's name) and e an enum type's name.                   *)
(***************************************************************************)
EXTENDS Integers, Sequences, FiniteSets, TLC

VARIABLES
    node,      \* SpecNode: the scalar node under test (kind "-" before construction)
    declared,  \* SpecNode: the is_optional argument its constructor was given
    nlast,     \* SpecNode: the last call on the node: [op, x, err]
    heap,      \* Spec: the objects, by address
    roots,     \* Spec: the containers the caller holds a reference to
    last,      \* Spec: the call that has just ended (op "-": none, the caller is idle)
    pre        \* Spec: the heap when that call began

nodeVars == <<node, declared, nlast>>
listVars == <<heap, roots, last, pre>>
vars == <<node, declared, nlast, heap, roots, last, pre>>

(***************************************************************************)
(* Raw values                                                              *)
(***************************************************************************)
None == [t |-> "none", n |-> 0, s |-> <<>>, e |-> <<>>]
IntV(i) == [t |-> "int", n |-> i, s |-> <<>>, e |-> <<>>]
StrV(cs) == [t |-> "str", n |-> 0, s |-> cs, e |-> <<>>]
BoolV(b) == [t |-> "bool", n |-> IF b THEN 1 ELSE 0, s |-> <<>>, e |-> <<>>]
\* a float, in tenths: FloatV(15) is 1.5
FloatV(tenths) == [t |-> "float", n |-> tenths, s |-> <<>>, e |-> <<>>]
NaN == [t |-> "float", n |-> 0, s |-> <<"n", "a", "n">>, e |-> <<>>]
\* a member of an enum type
EnumV(type, name, val) == [t |-> "enum", n |-> val, s |-> name, e |-> type]
\* an object of a type that is no primitive (object())
Obj == [t |-> "obj", n |-> 0, s |-> <<>>, e |-> <<>>]
\* a reference to the container at address a
Ref(a) == [t |-> "list", n |-> a, s |-> <<>>, e |-> <<>>]
IsNaN(x) == x.t = "float" /\ x.s # <<>>

\* The enum type the Enum node is bound to: class C(Enum): R = 1; G = 2
ColorName == <<"C">>
ColorMembers == {[name |-> <<"R">>, value |-> 1], [name |-> <<"G">>, value |-> 2]}
\* Another enum type: class S(Enum): R = 1
SizeName == <<"S">>

Ok(v) == [ok |-> TRUE, v |-> v, err |-> "none"]
Fail(e) == [ok |-> FALSE, v |-> None, err |-> e]

(***************************************************************************)
(* Python's str <-> number conversions, on character sequences             *)
(***************************************************************************)
Digits == <<"0", "1", "2", "3", "4", "5", "6", "7", "8", "9">>
IsDigit(c) == \E i \in 1..10 : Digits[i] = c
DigitVal(c) == (CHOOSE i \in 1..10 : Digits[i] = c) - 1

RECURSIVE DigitsVal(_)
DigitsVal(cs) ==
    IF cs = <<>> THEN 0
    ELSE DigitsVal(SubSeq(cs, 1, Len(cs) - 1)) * 10 + DigitVal(cs[Len(cs)])

AllDigits(cs) == cs # <<>> /\ \A i \in 1..Len(cs) : IsDigit(cs[i])
HasSign(cs) == cs # <<>> /\ cs[1] \in {"-", "+"}
Unsigned(cs) == IF HasSign(cs) THEN Tail(cs) ELSE cs
Signed(cs, m) == IF cs # <<>> /\ cs[1] = "-" THEN 0 - m ELSE m

\* int(s) succeeds: an optional sign and one or more digits
IsIntLiteral(cs) == AllDigits(Unsigned(cs))
ParseInt(cs) == Signed(cs, DigitsVal(Unsigned(cs)))

\* float(s) succeeds on "<digits>.<digit>" (tenths), on an int literal and on "nan"
IsDecimalLiteral(cs) ==
    LET u == Unsigned(cs) IN
    /\ Len(u) >= 3
    /\ u[Len(u) - 1] = "."
    /\ IsDigit(u[Len(u)])
    /\ AllDigits(SubSeq(u, 1, Len(u) - 2))
ParseDecimal(cs) ==
    LET u == Unsigned(cs) IN
    Signed(cs, DigitsVal(SubSeq(u, 1, Len(u) - 2)) * 10 + DigitVal(u[Len(u)]))

Lower(c) ==
    CASE c = "O" -> "o" [] c = "F" -> "f" [] c = "N" -> "n" [] c = "Y" -> "y"
      [] c = "T" -> "t" [] c = "R" -> "r" [] c = "U" -> "u" [] c = "E" -> "e"
      [] c = "S" -> "s" [] c = "A" -> "a" [] c = "L" -> "l" [] OTHER -> c
LowerStr(cs) == [i \in 1..Len(cs) |-> Lower(cs[i])]

RECURSIVE FormatNat(_)
FormatNat(m) ==
    IF m < 10 THEN <<Digits[m + 1]>> ELSE FormatNat(m \div 10) \o <<Digits[(m % 10) + 1]>>
FormatInt(i) == IF i < 0 THEN <<"-">> \o FormatNat(0 - i) ELSE FormatNat(i)
FormatFloat(x) ==
    IF IsNaN(x) THEN <<"n", "a", "n">>
    ELSE LET m == IF x.n < 0 THEN 0 - x.n ELSE x.n IN
         (IF x.n < 0 THEN <<"-">> ELSE <<>>)
            \o FormatNat(m \div 10) \o <<".">> \o <<Digits[(m % 10) + 1]>>

\* str(x)
PyStr(x) ==
    CASE x.t = "str" -> x.s
      [] x.t = "int" -> FormatInt(x.n)
      [] x.t = "bool" -> IF x.n = 1 THEN <<"T", "r", "u", "e">> ELSE <<"F", "a", "l", "s", "e">>
      [] x.t = "float" -> FormatFloat(x)
      [] x.t = "enum" -> x.e \o <<".">> \o x.s
      [] x.t = "none" -> <<"N", "o", "n", "e">>
      [] OTHER -> <<"<", "o", "b", "j", ">">>

StartsWith(cs, p) == Len(cs) >= Len(p) /\ SubSeq(cs, 1, Len(p)) = p

(***************************************************************************)
(* The resolver hook: _utils.get_value_kind                                *)
(***************************************************************************)
\* "???" is the mandatory-missing marker; a string holding "${" ... "}" is an
\* interpolation expression; any other string is a plain value.
GetValueKind(cs) ==
    IF cs = <<"?", "?", "?">> THEN "MANDATORY_MISSING"
    ELSE IF \E i \in 1..Len(cs) : \E j \in 1..Len(cs) :
                /\ i + 2 < j
                /\ cs[i] = "$" /\ cs[i + 1] = "{" /\ cs[j] = "}"
         THEN "INTERPOLATION"
         ELSE "VALUE"

IsPlaceholder(x) ==
    x.t = "str" /\ GetValueKind(x.s) \in {"INTERPOLATION", "MANDATORY_MISSING"}

(***************************************************************************)
(* validate_and_convert, per kind                                          *)
(***************************************************************************)
\* omegaconf._is_primitive_type
IsPrimitiveType(x) == x.t \in {"bool", "int", "float", "str", "none", "enum"}

AnyConvert(x) ==
    IF ~IsPrimitiveType(x) THEN Fail("UnsupportedValueType") ELSE Ok(x)

StringConvert(x) == IF x.t # "none" THEN Ok(StrV(PyStr(x))) ELSE Ok(None)

IntegerConvert(x) ==
    IF x.t = "none" THEN Ok(None)
    ELSE IF x.t = "int" THEN Ok(IntV(x.n))
    ELSE IF x.t = "str"
         THEN IF IsIntLiteral(x.s) THEN Ok(IntV(ParseInt(x.s))) ELSE Fail("ValidationError")
         ELSE Fail("ValidationError")

FloatConvert(x) ==
    IF x.t = "none" THEN Ok(None)
    ELSE IF x.t = "float" THEN Ok(x)
    ELSE IF x.t = "int" THEN Ok(FloatV(x.n * 10))
    ELSE IF x.t = "str"
         THEN IF IsIntLiteral(x.s) THEN Ok(FloatV(ParseInt(x.s) * 10))
              ELSE IF IsDecimalLiteral(x.s) THEN Ok(FloatV(ParseDecimal(x.s)))
              ELSE IF LowerStr(Unsigned(x.s)) = <<"n", "a", "n">> THEN Ok(NaN)
              ELSE Fail("ValidationError")
         ELSE Fail("ValidationError")

TruthyWords == {<<"y", "e", "s">>, <<"y">>, <<"o", "n">>, <<"t", "r", "u", "e">>}
FalsyWords == {<<"n", "o">>, <<"n">>, <<"o", "f", "f">>, <<"f", "a", "l", "s", "e">>}

BooleanConvert(x) ==
    IF x.t = "bool" THEN Ok(x)
    ELSE IF x.t = "int" THEN Ok(BoolV(x.n # 0))
    ELSE IF x.t = "none" THEN Ok(None)
    ELSE IF x.t = "str"
         THEN IF IsIntLiteral(x.s) THEN Ok(BoolV(ParseInt(x.s) # 0))
              ELSE IF LowerStr(x.s) \in TruthyWords THEN Ok(BoolV(TRUE))
              ELSE IF LowerStr(x.s) \in FalsyWords THEN Ok(BoolV(FALSE))
              ELSE Fail("ValidationError")
         ELSE Fail("ValidationError")

\* enum_type[name] / enum_type(value), for the bound type C
ColorByName(nm) == {m \in ColorMembers : m.name = nm}
ColorByValue(v) == {m \in ColorMembers : m.value = v}
Member(ms) == LET m == CHOOSE m \in ms : TRUE IN Ok(EnumV(ColorName, m.name, m.value))

EnumConvert(x) ==
    IF x.t = "none" THEN Ok(None)
    ELSE IF ~(x.t = "enum" /\ x.e = ColorName) /\ x.t \notin {"str", "int"}
         THEN Fail("ValidationError")
    ELSE IF x.t = "enum" THEN Member(ColorByName(x.s))
    ELSE IF x.t = "str"
         THEN LET prefix == ColorName \o <<".">>
                  nm == IF StartsWith(x.s, prefix)
                        THEN SubSeq(x.s, Len(prefix) + 1, Len(x.s)) ELSE x.s
              IN IF ColorByName(nm) # {} THEN Member(ColorByName(nm))
                 ELSE Fail("ValidationError")
         ELSE IF ColorByValue(x.n) # {} THEN Member(ColorByValue(x.n))
              ELSE Fail("ValidationError")

Kinds == {"Any", "String", "Integer", "Float", "Boolean", "Enum"}

ValidateAndConvert(kind, x) ==
    CASE kind = "Any" -> AnyConvert(x)
      [] kind = "String" -> StringConvert(x)
      [] kind = "Integer" -> IntegerConvert(x)
      [] kind = "Float" -> FloatConvert(x)
      [] kind = "Boolean" -> BooleanConvert(x)
      [] kind = "Enum" -> EnumConvert(x)

(***************************************************************************)
(* ValueNode.set_value and the constructors                                *)
(***************************************************************************)
\* A scalar node: its kind, is_optional and val.  The result of a call is
\* [nd |-> the node after the call, err |-> the error raised, or "none"].
\* self.val = <the converted value>, unless validate_and_convert raised
StoreConverted(nd, r) ==
    IF r.ok THEN [nd |-> [nd EXCEPT !.val = r.v], err |-> "none"]
    ELSE [nd |-> nd, err |-> r.err]

\* set_value without the is_optional check
SetValueUnchecked(nd, x) ==
    IF IsPlaceholder(x) THEN [nd |-> [nd EXCEPT !.val = x], err |-> "none"]
    ELSE StoreConverted(nd, ValidateAndConvert(nd.kind, x))

\* set_value that converts before it looks for a placeholder
SetValueEager(nd, x) ==
    IF ~nd.opt /\ x = None THEN [nd |-> nd, err |-> "ValidationError"]
    ELSE StoreConverted(nd, ValidateAndConvert(nd.kind, x))

\* ValueNode.set_value
SetValue(nd, x) ==
    IF IsPlaceholder(x) THEN [nd |-> [nd EXCEPT !.val = x], err |-> "none"]
    ELSE IF ~nd.opt /\ x = None THEN [nd |-> nd, err |-> "ValidationError"]
    ELSE StoreConverted(nd, ValidateAndConvert(nd.kind, x))

\* ValueNode.__init__: is_optional as given, val none
NewValueNode(kind, isOptional) == [kind |-> kind, opt |-> isOptional, val |-> None]

\* AnyNode.__init__ sets is_optional to True whatever it was given; the other
\* kinds keep it.  Every constructor but EnumNode's takes the initial value and
\* assigns it with set_value; EnumNode's takes the enum type and no value.
Construct(kind, isOptional, x) ==
    IF kind = "Enum" THEN [nd |-> NewValueNode(kind, isOptional), err |-> "none"]
    ELSE SetValue(NewValueNode(kind, IF kind = "Any" THEN TRUE ELSE isOptional), x)

(***************************************************************************)
(* The heap: objects by address.  Address 0 is Python's None.              *)
(***************************************************************************)
\* the most objects alive at once
MaxNodes == 6
\* the longest content a growing operation is tried on
MaxLen == 2

Addrs == 1..MaxNodes

Free ==
    [type |-> "free", parent |-> 0, ro |-> "unset", etype |-> "Any",
     content |-> <<>>, kind |-> "Any", opt |-> TRUE, val |-> None]

\* ListConfig.__init__ with content=[]: no flags, the given parent and element type
NewList(parent, etype) ==
    [type |-> "list", parent |-> parent, ro |-> "unset", etype |-> etype,
     content |-> <<>>, kind |-> "Any", opt |-> TRUE, val |-> None]

\* a scalar node object nd (kind, opt, val) with the given parent and no flags
NodeObj(nd, parent) ==
    [type |-> "val", parent |-> parent, ro |-> "unset", etype |-> "Any",
     content |-> <<>>, kind |-> nd.kind, opt |-> nd.opt, val |-> nd.val]

Lists(h) == {a \in Addrs : h[a].type = "list"}
FreeAddrs(h) == {a \in Addrs : h[a].type = "free"}
NewAddr(h) == CHOOSE a \in FreeAddrs(h) : \A b \in FreeAddrs(h) : a <= b
Fits(h, k) == Cardinality(FreeAddrs(h)) >= k

RECURSIVE Size(_, _)
RECURSIVE SizeFrom(_, _, _)
\* the number of objects of the tree at a
SizeFrom(h, cs, i) == IF i > Len(cs) THEN 0 ELSE Size(h, cs[i]) + SizeFrom(h, cs, i + 1)
Size(h, a) == 1 + SizeFrom(h, h[a].content, 1)

\* The objects the caller can still reach: its references, their contents and
\* their parents.  Every other object has been collected.
Live(h, rs) ==
    LET Step(S) == S \cup UNION {{h[a].content[i] : i \in 1..Len(h[a].content)} : a \in S}
                     \cup ({h[a].parent : a \in S} \ {0})
        F[k \in 0..MaxNodes] == IF k = 0 THEN rs ELSE Step(F[k - 1])
    IN F[MaxNodes]
Collect(h, rs) == [a \in Addrs |-> IF a \in Live(h, rs) THEN h[a] ELSE Free]

(***************************************************************************)
(* Flags: Node._get_flag / Node._set_flag for the flag "readonly"          *)
(***************************************************************************)
RECURSIVE GetFlag(_, _)
\* the node's own flag when its mapping holds one, else its parent's lookup,
\* else (no parent) unset
GetFlag(h, a) ==
    IF h[a].ro # "unset" THEN h[a].ro
    ELSE IF h[a].parent = 0 THEN "unset"
    ELSE GetFlag(h, h[a].parent)

\* if self._get_flag("readonly"):
ReadOnly(h, a) == GetFlag(h, a) = "true"

SetFlag(h, a, v) == [h EXCEPT ![a].ro = v]

(***************************************************************************)
(* Deep copy                                                               *)
(***************************************************************************)
RECURSIVE ReParent(_, _)
RECURSIVE ReParentFrom(_, _, _)
\* _utils._re_parent: every item's parent becomes the container, recursively
ReParentFrom(h, n, i) ==
    IF i > Len(h[n].content) THEN h
    ELSE LET ch == h[n].content[i] IN
         ReParentFrom(ReParent([h EXCEPT ![ch].parent = n], ch), n, i + 1)
ReParent(h, n) == IF h[n].type = "list" THEN ReParentFrom(h, n, 1) ELSE h

\* The result of an operation: the heap after it, the error raised ("none":
\* it returned) and the address of what it made.
Done(h, a) == [h |-> h, err |-> "none", a |-> a]
Raise(h, e) == [h |-> h, err |-> e, a |-> 0]

RECURSIVE DeepCopy(_, _)
RECURSIVE CopyAll(_, _, _)
\* copy.deepcopy of a list of nodes: [h |-> the heap, out |-> the copies' addresses]
CopyNext(r, cs, out) == CopyAll(r.h, Tail(cs), Append(out, r.a))
CopyAll(h, cs, out) ==
    IF cs = <<>> THEN [h |-> h, out |-> out] ELSE CopyNext(DeepCopy(h, Head(cs)), cs, out)

\* ValueNode.__deepcopy__ / _deepcopy_impl: a new node of the same kind with
\* val, flags and is_optional copied, and no parent
ValueDeepcopy(h, a) == Done([h EXCEPT ![NewAddr(h)] = [h[a] EXCEPT !.parent = 0]], NewAddr(h))

\* res with the copied content, flags and element type, re-parented
CopyInto(h, a, n, r) ==
    Done(ReParent([r.h EXCEPT ![n].content = r.out, ![n].ro = h[a].ro,
                              ![n].etype = h[a].etype], n), n)

\* a deep copy gone wrong: the copy shares the original's nodes
ListDeepcopyShallow(h, a) ==
    CopyInto(h, a, NewAddr(h),
             [h |-> [h EXCEPT ![NewAddr(h)] = NewList(0, "Any")], out |-> h[a].content])

\* ListConfig.__deepcopy__: res = ListConfig(content=[]); content, flags and
\* _element_type deep-copied; _re_parent(res)
ListDeepcopy(h, a) ==
    CopyInto(h, a, NewAddr(h),
             CopyAll([h EXCEPT ![NewAddr(h)] = NewList(0, "Any")], h[a].content, <<>>))

DeepCopy(h, a) == IF h[a].type = "list" THEN ListDeepcopy(h, a) ELSE ValueDeepcopy(h, a)

(***************************************************************************)
(* What a container holds, free of addresses                               *)
(***************************************************************************)
RECURSIVE View(_, _)
\* a scalar node as <<kind, is_optional, val, flags>>, a container as
\* <<element type, flags, the views of its items>>
View(h, a) ==
    IF h[a].type = "list"
    THEN <<h[a].etype, h[a].ro, [i \in 1..Len(h[a].content) |-> View(h, h[a].content[i])]>>
    ELSE <<h[a].kind, h[a].opt, h[a].val, h[a].ro>>

\* the items' views
Items(h, a) == View(h, a)[3]

RECURSIVE Descendants(_, _)
\* the objects below a
Descendants(h, a) ==
    LET kids == {h[a].content[i] : i \in 1..Len(h[a].content)} IN
    kids \cup UNION {Descendants(h, k) : k \in kids}

(***************************************************************************)
(* Wrapping a raw value: omegaconf._maybe_wrap                             *)
(***************************************************************************)
\* value._set_parent(c)
Adopt(r, c) == Done([r.h EXCEPT ![r.a].parent = c], r.a)
\* the node a constructor made, or its error
Place(h, c, r) ==
    IF r.err # "none" THEN Raise(h, r.err)
    ELSE Done([h EXCEPT ![NewAddr(h)] = NodeObj(r.nd, c)], NewAddr(h))

\* A container value is deep-copied and the copy's parent set; any other value
\* becomes a new node of the container's element type (is_optional=True).
MaybeWrap(h, c, etype, x) ==
    IF x.t = "list" THEN Adopt(DeepCopy(h, x.n), c)
    ELSE Place(h, c, Construct(etype, TRUE, x))

(***************************************************************************)
(* Python's list indexing                                                  *)
(***************************************************************************)
\* isinstance(index, int)
IsInt(x) == x.t \in {"int", "bool"}
\* the 1-based position the index i denotes in a list of n items; 0: IndexError
Pos(i, n) ==
    IF 0 <= i /\ i < n THEN i + 1
    ELSE IF 0 - n <= i /\ i < 0 THEN i + n + 1
    ELSE 0
\* list.insert(i, x): the number of items left before x (the index is clamped)
InsertPos(i, n) ==
    IF i < 0 THEN (IF i + n < 0 THEN 0 ELSE i + n)
    ELSE IF i > n THEN n ELSE i
InsertAt(cs, k, a) == SubSeq(cs, 1, k) \o <<a>> \o SubSeq(cs, k + 1, Len(cs))
RemoveAt(cs, p) == SubSeq(cs, 1, p - 1) \o SubSeq(cs, p + 1, Len(cs))

(***************************************************************************)
(* Python's == and < on raw values                                         *)
(***************************************************************************)
IsNumber(x) == x.t \in {"int", "bool", "float"}
\* a number in tenths
Tenths(x) == IF x.t = "float" THEN x.n ELSE x.n * 10
PyEq(x, y) ==
    IF IsNumber(x) /\ IsNumber(y) THEN ~IsNaN(x) /\ ~IsNaN(y) /\ Tenths(x) = Tenths(y)
    ELSE x = y

\* ord(c), for the characters of the strings tried
Ord(c) ==
    CASE c = "$" -> 36 [] c = "-" -> 45 [] c = "." -> 46 [] c = "?" -> 63
      [] c = "a" -> 97 [] c = "x" -> 120 [] c = "{" -> 123 [] c = "}" -> 125
      [] OTHER -> 48 + DigitVal(c)
RECURSIVE StrLt(_, _)
StrLt(s, u) ==
    IF u = <<>> THEN FALSE
    ELSE IF s = <<>> THEN TRUE
    ELSE IF Head(s) = Head(u) THEN StrLt(Tail(s), Tail(u))
    ELSE Ord(Head(s)) < Ord(Head(u))
\* x < y raises TypeError unless both are numbers or both are strings
Orderable(x, y) == (IsNumber(x) /\ IsNumber(y)) \/ (x.t = "str" /\ y.t = "str")
PyLt(x, y) ==
    IF x.t = "str" THEN StrLt(x.s, y.s)
    ELSE ~IsNaN(x) /\ ~IsNaN(y) /\ Tenths(x) < Tenths(y)

(***************************************************************************)
(* ListConfig's write operations                                           *)
(***************************************************************************)
\* self.content[p] = <the wrapped value>
StoreAt(h, c, p, w) ==
    IF w.err # "none" THEN Raise(h, w.err)
    ELSE IF p = 0 THEN Raise(h, "IndexError")
    ELSE Done([w.h EXCEPT ![c].content[p] = w.a], w.a)

\* BaseContainer._set_item_impl: the item at the index is replaced by the
\* wrapped value (a container arrives already copied and parented)
SetItemImpl(h, c, i, x) ==
    StoreAt(h, c, Pos(i, Len(h[c].content)),
            IF x.t = "list" THEN Done(h, x.n) ELSE MaybeWrap(h, c, h[c].etype, x))

\* the outcome of a call made on a heap that the caller then forgets
OrUndo(h, r) == IF r.err # "none" THEN Raise(h, r.err) ELSE r

\* value = copy.deepcopy(value); value._set_parent(self); _set_item_impl
SetCopy(h, c, i, r) == OrUndo(h, SetItemImpl(r.h, c, i, Ref(r.a)))

\* ListConfig._set_at_index / __setitem__
SetAtIndex(h, c, idx, x) ==
    IF ~IsInt(idx) THEN Raise(h, "UnsupportedKeyType")
    ELSE IF ReadOnly(h, c) THEN Raise(h, "ReadonlyConfigError")
    ELSE IF x.t = "list" THEN SetCopy(h, c, idx.n, Adopt(DeepCopy(h, x.n), c))
    ELSE SetItemImpl(h, c, idx.n, x)

\* self.content.append(<the wrapped item>), unless wrapping raised
AppendWrapped(h, c, w) ==
    IF w.err # "none" THEN Raise(h, w.err)
    ELSE Done([w.h EXCEPT ![c].content = Append(h[c].content, w.a)], w.a)

\* append without the read-only check
AppendUnguarded(h, c, x) == AppendWrapped(h, c, MaybeWrap(h, c, h[c].etype, x))

\* append that looks at the container's own flag only
AppendLocalFlag(h, c, x) ==
    IF h[c].ro = "true" THEN Raise(h, "ReadonlyConfigError")
    ELSE AppendWrapped(h, c, MaybeWrap(h, c, h[c].etype, x))

\* ListConfig.append
ListAppend(h, c, x) ==
    IF ReadOnly(h, c) THEN Raise(h, "ReadonlyConfigError")
    ELSE AppendWrapped(h, c, MaybeWrap(h, c, h[c].etype, x))

\* AnyNode(None): an Any node holding none, with no parent
Placeholder == NodeObj(NewValueNode("Any", TRUE), 0)

\* self.content.insert(index, AnyNode(None)): the index is clamped
WithPlaceholder(h, c, i, n) ==
    [h EXCEPT ![n] = Placeholder,
              ![c].content = InsertAt(h[c].content, InsertPos(i, Len(h[c].content)), n)]

\* except Exception: del self.__dict__["content"][index]; raise
Rollback(h1, c, p, r) ==
    IF r.err = "none" THEN r
    ELSE IF p = 0 THEN Raise(h1, "IndexError")
    ELSE Raise([h1 EXCEPT ![c].content = RemoveAt(h1[c].content, p)], r.err)

\* the placeholder is in: self._set_at_index(index, item), and the handler
Assign(h1, c, idx, x) ==
    Rollback(h1, c, Pos(idx.n, Len(h1[c].content)), SetAtIndex(h1, c, idx, x))

\* ListConfig.insert.  A non-integer index makes list.insert, and then the del
\* of the handler, raise TypeError.
ListInsert(h, c, idx, x) ==
    IF ReadOnly(h, c) THEN Raise(h, "ReadonlyConfigError")
    ELSE IF ~IsInt(idx) THEN Raise(h, "TypeError")
    ELSE Assign(WithPlaceholder(h, c, idx.n, NewAddr(h)), c, idx, x)

RECURSIVE ExtendFrom(_, _, _, _)
\* for x in lst: self.append(x)
ExtendNext(r, c, xs, i) == IF r.err # "none" THEN r ELSE ExtendFrom(r.h, c, xs, i + 1)
ExtendFrom(h, c, xs, i) ==
    IF i > Len(xs) THEN Done(h, 0) ELSE ExtendNext(ListAppend(h, c, xs[i]), c, xs, i)

\* ListConfig.__iter__: a scalar node yields its value, a container itself
IterItems(h, a) ==
    [i \in 1..Len(h[a].content) |->
        LET ch == h[a].content[i] IN IF h[ch].type = "val" THEN h[ch].val ELSE Ref(ch)]

\* what extend and + take: a list of raw values, or the ListConfig at an address
SeqArg(xs) == [src |-> 0, items |-> xs]
ListArg(a) == [src |-> a, items |-> <<>>]
ArgItems(h, lst) == IF lst.src # 0 THEN IterItems(h, lst.src) ELSE lst.items

\* ListConfig.extend
ListExtend(h, c, lst) == ExtendFrom(h, c, ArgItems(h, lst), 1)

\* BaseContainer.__delitem__: del self[p] (p = 0: del self[:])
DelItem(h, c, p) ==
    IF ReadOnly(h, c) THEN Raise(h, "ReadonlyConfigError")
    ELSE IF p = 0 THEN Done([h EXCEPT ![c].content = <<>>], 0)
    ELSE Done([h EXCEPT ![c].content = RemoveAt(h[c].content, p)], 0)

\* ListConfig.index: the first position whose item equals x, 0 when there is none
IndexOf(h, c, x) ==
    LET its == IterItems(h, c)
        hits == {i \in 1..Len(its) : PyEq(x, its[i])} IN
    IF hits = {} THEN 0 ELSE CHOOSE i \in hits : \A j \in hits : i <= j

\* ListConfig.remove
ListRemove(h, c, x) ==
    IF IndexOf(h, c, x) = 0 THEN Raise(h, "ValueError")
    ELSE DelItem(h, c, IndexOf(h, c, x))

\* ListConfig.clear: del self[:]
ListClear(h, c) == DelItem(h, c, 0)

\* BaseContainer._resolve_with_default on a popped node: a mandatory-missing
\* marker has no value to give
ResolveWithDefault(h, a) ==
    IF h[a].type = "val" /\ h[a].val.t = "str" /\ GetValueKind(h[a].val.s) = "MANDATORY_MISSING"
    THEN "MissingMandatoryValue" ELSE "none"

\* the node at p is taken out of the content, then resolved
PopAt(h, c, p) ==
    IF p = 0 THEN Raise(h, "IndexError")
    ELSE IF ResolveWithDefault(h, h[c].content[p]) # "none"
    THEN Raise([h EXCEPT ![c].content = RemoveAt(h[c].content, p)],
               ResolveWithDefault(h, h[c].content[p]))
    ELSE Done([h EXCEPT ![c].content = RemoveAt(h[c].content, p)], h[c].content[p])

\* ListConfig.pop
ListPop(h, c, idx) ==
    IF ReadOnly(h, c) THEN Raise(h, "ReadonlyConfigError")
    ELSE IF ~IsInt(idx) THEN Raise(h, "TypeError")
    ELSE PopAt(h, c, Pos(idx.n, Len(h[c].content)))

RECURSIVE InsertSorted(_, _, _, _)
\* a is put after every item that does not come after it (a stable sort)
InsertSorted(h, out, a, reverse) ==
    IF out = <<>> THEN <<a>>
    ELSE LET b == out[Len(out)]
             after == IF reverse THEN PyLt(h[b].val, h[a].val) ELSE PyLt(h[a].val, h[b].val) IN
         IF after THEN Append(InsertSorted(h, SubSeq(out, 1, Len(out) - 1), a, reverse), b)
         ELSE Append(out, a)
RECURSIVE SortedFrom(_, _, _, _)
SortedFrom(h, cs, i, reverse) ==
    IF i = 0 THEN <<>>
    ELSE InsertSorted(h, SortedFrom(h, cs, i - 1, reverse), cs[i], reverse)

Rearrangements(cs) ==
    {[i \in 1..Len(cs) |-> cs[f[i]]] :
        f \in {g \in [1..Len(cs) -> 1..Len(cs)] : \A i, j \in 1..Len(cs) : g[i] = g[j] => i = j}}

\* ListConfig.sort(key=None, reverse): the outcomes.  x.value() of a container
\* item raises AttributeError before anything moves; when two values cannot be
\* ordered list.sort raises TypeError and may leave the items in any order.
ListSort(h, c, reverse) ==
    LET cs == h[c].content
        n == Len(cs) IN
    IF ReadOnly(h, c) THEN {Raise(h, "ReadonlyConfigError")}
    ELSE IF \E i \in 1..n : h[cs[i]].type = "list" THEN {Raise(h, "AttributeError")}
    ELSE IF \E i, j \in 1..n : i # j /\ ~Orderable(h[cs[i]].val, h[cs[j]].val)
         THEN {Raise([h EXCEPT ![c].content = q], "TypeError") : q \in Rearrangements(cs)}
         ELSE {Done([h EXCEPT ![c].content = SortedFrom(h, cs, n, reverse)], 0)}

\* res.extend(o); return res
AddRight(h, n, o, r1) ==
    IF r1.err # "none" THEN Raise(h, r1.err)
    ELSE OrUndo(h, [ExtendFrom(r1.h, n, ArgItems(r1.h, o), 1) EXCEPT !.a = n])

\* ListConfig.__add__: res shares this list's parent; res.extend(self)
ListAdd(h, c, o) ==
    AddRight(h, NewAddr(h), o,
             ExtendFrom([h EXCEPT ![NewAddr(h)] = NewList(h[c].parent, "Any")],
                        NewAddr(h), IterItems(h, c), 1))

\* ListConfig(content, parent=None, element_type): every item is appended
ListCreate(h, xs, etype) ==
    OrUndo(h, [ExtendFrom([h EXCEPT ![NewAddr(h)] = NewList(0, etype)], NewAddr(h), xs, 1)
                 EXCEPT !.a = NewAddr(h)])

NoNode == [kind |-> "-", opt |-> TRUE, val |-> None]
NoCall == [op |-> "-", x |-> None, err |-> "none"]

\* The raw inputs tried on a scalar node
Str_5 == StrV(<<"5">>)
Str_x == StrV(<<"x">>)
Str_Off == StrV(<<"O", "f", "f">>)
Str_1_5 == StrV(<<"1", ".", "5">>)
Str_nan == StrV(<<"n", "a", "n">>)
Str_interp == StrV(<<"$", "{", "a", "}">>)
Str_missing == StrV(<<"?", "?", "?">>)
Str_R == StrV(<<"R">>)
Str_C_G == StrV(<<"C", ".", "G">>)
Color_R == EnumV(ColorName, <<"R">>, 1)
Size_R == EnumV(SizeName, <<"R">>, 1)

NodeInputs ==
    {None, IntV(0), IntV(2), BoolV(TRUE), FloatV(15), NaN, Obj,
     Str_5, Str_x, Str_Off, Str_1_5, Str_nan, Str_interp, Str_missing,
     Str_R, Str_C_G, Color_R, Size_R}

NoListCall ==
    [op |-> "-", c |-> 0, idx |-> None, x |-> None, lst |-> SeqArg(<<>>),
     err |-> "none", res |-> 0]
EmptyHeap == [a \in Addrs |-> Free]

NodeInit ==
    /\ node = NoNode
    /\ declared = TRUE
    /\ nlast = NoCall
    /\ heap = EmptyHeap
    /\ roots = <<>>
    /\ last = NoListCall
    /\ pre = EmptyHeap

\* kind(value, is_optional=isOptional): when the constructor raises there is no node
NodeConstruct ==
    \E kind \in Kinds, isOptional \in BOOLEAN, x \in NodeInputs :
        LET r == Construct(kind, isOptional, x) IN
        /\ node' = IF r.err = "none" THEN r.nd ELSE NoNode
        /\ declared' = IF r.err = "none" THEN isOptional ELSE TRUE
        /\ nlast' = [op |-> "construct", x |-> x, err |-> r.err]
        /\ UNCHANGED listVars

\* node.set_value(x)
NodeSetValue ==
    \E x \in NodeInputs :
        LET r == SetValue(node, x) IN
        /\ node.kind # "-"
        /\ node' = r.nd
        /\ declared' = declared
        /\ nlast' = [op |-> "set_value", x |-> x, err |-> r.err]
        /\ UNCHANGED listVars

NodeNext == NodeConstruct \/ NodeSetValue


(***************************************************************************)
(* The caller of the containers                                            *)
(***************************************************************************)
\* the most containers the caller holds a reference to at once
MaxRoots == 2

Range(f) == {f[i] : i \in DOMAIN f}
Refs(h) == {Ref(a) : a \in Lists(h)}

\* the objects a value takes when it is wrapped
Need(h, x) == IF x.t = "list" THEN Size(h, x.n) ELSE 1
RECURSIVE NeedAll(_, _)
NeedAll(h, xs) == IF xs = <<>> THEN 0 ELSE Need(h, Head(xs)) + NeedAll(h, Tail(xs))
\* x is the container c or holds it: a copy of x taken while c grows is larger
Inside(h, c, x) == x.t = "list" /\ (c = x.n \/ c \in Descendants(h, x.n))
\* the objects extend takes at most: an item that holds c is copied with what
\* the items before it added
ExtendNeed(h, c, xs) ==
    NeedAll(h, xs) + (IF \E i \in 1..Len(xs) : Inside(h, c, xs[i]) THEN NeedAll(h, xs) ELSE 0)

\* Addresses carry no meaning: once a call has been observed the objects are
\* renumbered in the order a walk from the caller's references meets them.
RECURSIVE Visit(_, _, _)
RECURSIVE VisitAll(_, _, _, _)
VisitAll(h, seen, cs, i) ==
    IF i > Len(cs) THEN seen ELSE VisitAll(h, Visit(h, seen, cs[i]), cs, i + 1)
Visit(h, seen, a) ==
    IF a = 0 \/ a \in Range(seen) THEN seen
    ELSE Visit(h, VisitAll(h, Append(seen, a), h[a].content, 1), h[a].parent)
Rank(ord, a) == IF a = 0 THEN 0 ELSE CHOOSE i \in 1..Len(ord) : ord[i] = a
Compact(h, rs) ==
    LET ord == VisitAll(h, <<>>, rs, 1) IN
    [i \in Addrs |->
        IF i > Len(ord) THEN Free
        ELSE LET o == h[ord[i]] IN
             [o EXCEPT !.parent = Rank(ord, o.parent),
                       !.content = [j \in 1..Len(o.content) |-> Rank(ord, o.content[j])]]]
CompactRoots(h, rs) ==
    LET ord == VisitAll(h, <<>>, rs, 1) IN [i \in 1..Len(rs) |-> Rank(ord, rs[i])]

ListInit ==
    /\ heap = EmptyHeap
    /\ roots = <<>>
    /\ last = NoListCall
    /\ pre = EmptyHeap
    /\ node = NoNode
    /\ declared = TRUE
    /\ nlast = NoCall

\* A call ends: the heap is what the caller can still reach, and the call and
\* the heap it began with are on record until the caller goes on.
Call(op, c, idx, x, lst, r, isNew) ==
    LET rs == IF isNew /\ r.err = "none" THEN Append(roots, r.a) ELSE roots IN
    /\ last.op = "-"
    /\ pre' = heap
    /\ roots' = rs
    /\ heap' = Collect(r.h, Range(rs))
    /\ last' = [op |-> op, c |-> c, idx |-> idx, x |-> x, lst |-> lst,
                err |-> r.err, res |-> r.a]
    /\ UNCHANGED nodeVars

\* the caller has seen the outcome and goes on
Return ==
    /\ last.op # "-"
    /\ last' = NoListCall
    /\ heap' = Compact(heap, roots)
    /\ roots' = CompactRoots(heap, roots)
    /\ pre' = heap'
    /\ UNCHANGED nodeVars

\* the caller lets go of a reference
Drop ==
    \E k \in 1..Len(roots) :
        LET rs == SubSeq(roots, 1, k - 1) \o SubSeq(roots, k + 1, Len(roots))
            h == Collect(heap, Range(rs)) IN
        /\ last.op = "-"
        /\ roots' = CompactRoots(h, rs)
        /\ heap' = Compact(h, rs)
        /\ pre' = heap'
        /\ UNCHANGED <<last, nodeVars>>

\* ListConfig(xs, element_type=etype)
Create(Ls, Ts, cap) ==
    \E xs \in Ls, etype \in Ts :
        /\ Len(roots) < cap
        /\ Fits(heap, 1 + Len(xs))
        /\ Call("create", 0, None, StrV(<<etype>>), SeqArg(xs), ListCreate(heap, xs, etype), TRUE)

\* c._set_flag("readonly", v)
SetReadonly(Vs) ==
    \E c \in Lists(heap), v \in Vs :
        Call("set_flag", c, None, StrV(<<v>>), SeqArg(<<>>), Done(SetFlag(heap, c, v), 0), FALSE)

\* c[idx] = x
SetItem(Is, Xs) ==
    \E c \in Lists(heap), idx \in Is, x \in Xs :
        /\ x.t = "list" => x.n \in Lists(heap)
        /\ Fits(heap, Need(heap, x))
        /\ Call("set_item", c, idx, x, SeqArg(<<>>), SetAtIndex(heap, c, idx, x), FALSE)

\* c.append(x)
DoAppend(Xs) ==
    \E c \in Lists(heap), x \in Xs :
        /\ x.t = "list" => x.n \in Lists(heap)
        /\ Len(heap[c].content) < MaxLen
        /\ Fits(heap, Need(heap, x))
        /\ Call("append", c, None, x, SeqArg(<<>>), ListAppend(heap, c, x), FALSE)

\* c.insert(idx, x)
DoInsert(Is, Xs) ==
    \E c \in Lists(heap), idx \in Is, x \in Xs :
        /\ x.t = "list" => x.n \in Lists(heap)
        /\ Len(heap[c].content) < MaxLen
        /\ Fits(heap, 1 + Need(heap, x) + (IF Inside(heap, c, x) THEN 1 ELSE 0))
        /\ Call("insert", c, idx, x, SeqArg(<<>>), ListInsert(heap, c, idx, x), FALSE)

\* c.extend(lst); c.extend(c) on a c that is not empty does not end
DoExtend(As) ==
    \E c \in Lists(heap), lst \in As :
        /\ lst.src # 0 => (lst.src \in Lists(heap) /\ lst.src # c)
        /\ Len(heap[c].content) + Len(ArgItems(heap, lst)) <= MaxLen
        /\ Fits(heap, ExtendNeed(heap, c, ArgItems(heap, lst)))
        /\ Call("extend", c, None, None, lst, ListExtend(heap, c, lst), FALSE)

\* c.remove(x)
DoRemove(Xs) ==
    \E c \in Lists(heap), x \in Xs :
        Call("remove", c, None, x, SeqArg(<<>>), ListRemove(heap, c, x), FALSE)

\* c.clear()
DoClear ==
    \E c \in Lists(heap) :
        Call("clear", c, None, None, SeqArg(<<>>), ListClear(heap, c), FALSE)

\* c.pop(idx)
DoPop(Is) ==
    \E c \in Lists(heap), idx \in Is :
        Call("pop", c, idx, None, SeqArg(<<>>), ListPop(heap, c, idx), FALSE)

\* c.sort(reverse=rev)
DoSort(Rs) ==
    \E c \in Lists(heap), rev \in Rs : \E r \in ListSort(heap, c, rev) :
        Call("sort", c, None, BoolV(rev), SeqArg(<<>>), r, FALSE)

\* c + lst
DoAdd(As) ==
    \E c \in Lists(heap), lst \in As :
        /\ Len(roots) < MaxRoots
        /\ lst.src # 0 => lst.src \in Lists(heap)
        /\ Len(heap[c].content) + Len(ArgItems(heap, lst)) <= MaxLen
        /\ Fits(heap, 1 + NeedAll(heap, IterItems(heap, c)) + NeedAll(heap, ArgItems(heap, lst)))
        /\ Call("add", c, None, None, lst, ListAdd(heap, c, lst), TRUE)

\* copy.deepcopy(c)
DoDeepCopy ==
    \E c \in Lists(heap) :
        /\ Len(roots) < MaxRoots
        /\ Fits(heap, Size(heap, c))
        /\ Call("deepcopy", c, None, None, SeqArg(<<>>), DeepCopy(heap, c), TRUE)

Str_2 == StrV(<<"2">>)
\* the containers the caller holds, as values and as arguments of extend and +
RootRefs == {Ref(roots[i]) : i \in DOMAIN roots}
RootArgs == {ListArg(roots[i]) : i \in DOMAIN roots}
\* the objects alive
Used(h) == Cardinality(Addrs \ FreeAddrs(h))

(***************************************************************************)
(* Spec: one list, of element type Any or Integer, written with items that *)
(* wrap, convert or fail, at indexes of every sort                         *)
(***************************************************************************)
ListItems == {IntV(1), Str_2, Str_x, Str_missing, Obj}
\* in range, negative, out of range on either side, no integer
Indexes == {IntV(0), IntV(1), IntV(0 - 1), IntV(MaxLen + 1), IntV(0 - (MaxLen + 2)), Str_x}
ArgLists ==
    {<<>>} \cup {<<x>> : x \in {Str_2, Obj}} \cup {<<x, y>> : x \in {Str_2, Obj}, y \in {Str_2, Obj}}
PlainArgs == {SeqArg(xs) : xs \in ArgLists}

Next ==
    \/ Create(ArgLists, {"Any", "Integer"}, 1)
    \/ Drop
    \/ SetItem(Indexes, ListItems)
    \/ DoAppend(ListItems)
    \/ DoInsert(Indexes, ListItems)
    \/ DoExtend(PlainArgs)
    \/ DoRemove(ListItems)
    \/ DoClear
    \/ DoPop(Indexes)
    \/ DoSort(BOOLEAN)
    \/ DoAdd({SeqArg(<<Str_2>>)} \cup RootArgs)
    \/ Return

Spec == ListInit /\ [][Next]_vars

(***************************************************************************)
(* SpecTree: nested lists with flags, copied and added, written with one   *)
(* item that wraps and one that does not                                   *)
(***************************************************************************)
(* SpecFlags: nested lists with read-only flags set, reset and cleared on  *)
(* any of them, and every mutating operation tried on any of them          *)
(***************************************************************************)
\* the most objects alive at once under SpecFlags
MaxFlagged == 4
Small == Used(heap) <= MaxFlagged
FlagItems == {IntV(1)}

FlagsNext ==
    \/ Create({<<>>}, {"Any"}, 1) /\ Small'
    \/ Drop
    \/ SetReadonly({"unset", "true", "false"})
    \/ SetItem({IntV(0), Str_x}, FlagItems)
    \/ DoAppend(FlagItems \cup RootRefs) /\ Small'
    \/ DoInsert({IntV(0)}, FlagItems) /\ Small'
    \/ DoExtend({SeqArg(<<>>), SeqArg(<<IntV(1)>>)}) /\ Small'
    \/ DoRemove({IntV(1), Str_x})
    \/ DoClear
    \/ DoPop({IntV(0), Str_x})
    \/ DoSort({FALSE})
    \/ Return

SpecFlags == ListInit /\ [][FlagsNext]_vars

(***************************************************************************)
(* SpecCopy: nested lists, flagged, copied and then written                *)
(***************************************************************************)
\* no container carries a flag yet
NoFlags == \A a \in Lists(heap) : heap[a].ro = "unset"

CopiesNext ==
    \/ Create({<<>>}, {"Any"}, MaxRoots)
    \/ Drop
    \/ NoFlags /\ SetReadonly({"true"})
    \/ DoAppend({IntV(1)} \cup RootRefs)
    \/ DoDeepCopy
    \/ Return

SpecCopy == ListInit /\ [][CopiesNext]_vars

SpecNode == NodeInit /\ [][NodeNext]_vars

(***************************************************************************)
(* Claims on the scalar nodes (checked under SpecNode)                     *)
(***************************************************************************)
SetNoneStep == nlast'.op = "set_value" /\ nlast'.x = None

\* C4 (as stated): for every kind, a node constructed as non-optional rejects
\* set_value(none) with ValidationError and keeps its value, and a node
\* constructed as optional accepts it and then holds none.
C4_AsStated ==
    [][SetNoneStep =>
         IF declared
         THEN nlast'.err = "none" /\ node'.val = None
         ELSE nlast'.err = "ValidationError" /\ node'.val = node.val]_vars

\* C4 (amended): the same for every kind but Any; an Any node accepts
\* set_value(none) whether it was constructed as optional or not.
C4_NoneRejectedUnlessOptional ==
    [][SetNoneStep =>
         IF declared \/ node.kind = "Any"
         THEN nlast'.err = "none" /\ node'.val = None
         ELSE nlast'.err = "ValidationError" /\ node'.val = node.val]_vars

\* a non-optional Integer node holding a number has just rejected none
C4_Witness ==
    /\ nlast.op = "set_value" /\ nlast.x = None /\ nlast.err = "ValidationError"
    /\ node.kind = "Integer" /\ ~declared /\ node.val.t = "int"

\* C10: a set_value(x) of a placeholder string always succeeds and stores x
\* unmodified; any other successful set_value(x) stores validate_and_convert(x)
\* of the node's kind; none is stored only in an optional node; a failed
\* set_value leaves the stored value as it was.
C10_StoredValue ==
    [][nlast'.op = "set_value" =>
         LET x == nlast'.x
             r == ValidateAndConvert(node.kind, x) IN
         /\ IsPlaceholder(x) => nlast'.err = "none" /\ node'.val = x
         /\ (~IsPlaceholder(x) /\ nlast'.err = "none") => r.ok /\ node'.val = r.v
         /\ (nlast'.err = "none" /\ node'.val = None) => node'.opt
         /\ nlast'.err # "none" => node'.val = node.val
         /\ node'.kind = node.kind /\ node'.opt = node.opt]_vars

\* an Integer node took an interpolation string verbatim
C10_Witness ==
    /\ nlast.op = "set_value" /\ nlast.x = Str_interp /\ nlast.err = "none"
    /\ node.kind = "Integer" /\ node.val = Str_interp

(***************************************************************************)
(* Claims on the containers.  A state in which last.op is not "-" is the   *)
(* return of the call last records: pre is the heap the call began with,   *)
(* heap the one it left.                                                   *)
(***************************************************************************)
Mutating == {"set_item", "append", "insert", "pop", "sort", "remove", "clear", "extend"}
\* a mutating call on a container that was read-only, by its own flag or by
\* the one it inherits, has returned
ReadonlyCall == last.op \in Mutating /\ ReadOnly(pre, last.c)

\* C1 (as stated): every mutating operation on a read-only sequence container
\* fails with ReadonlyConfigError and leaves length and content as they were.
C1_AsStated == ReadonlyCall => last.err = "ReadonlyConfigError" /\ heap = pre

\* what a mutating call on a read-only container ends with
ReadonlyOutcome ==
    IF last.op = "set_item" /\ ~IsInt(last.idx) THEN "UnsupportedKeyType"
    ELSE IF last.op = "remove" /\ IndexOf(pre, last.c, last.x) = 0 THEN "ValueError"
    ELSE IF last.op = "extend" /\ ArgItems(pre, last.lst) = <<>> THEN "none"
    ELSE "ReadonlyConfigError"

\* C1 (amended): no mutating operation changes a read-only sequence container,
\* and each fails with ReadonlyConfigError, except that set_item with an index
\* that is no integer fails with UnsupportedKeyType, remove of a value the
\* container does not hold fails with ValueError, and extend with an empty
\* sequence returns normally.
C1_ReadonlyUnchanged == ReadonlyCall => last.err = ReadonlyOutcome /\ heap = pre

\* an append to a container that inherits the flag from its parent was refused
C1_Witness ==
    /\ ReadonlyCall /\ last.op = "append" /\ last.err = "ReadonlyConfigError"
    /\ pre[last.c].ro = "unset" /\ pre[last.c].parent # 0

RECURSIVE Chain(_, _)
\* the parent chain of a node, the node itself first
Chain(h, a) == IF a = 0 THEN <<>> ELSE <<a>> \o Chain(h, h[a].parent)
\* the flag of the first node of the chain that has one, else unset
NearestFlag(h, a) ==
    LET ch == Chain(h, a)
        set == {i \in 1..Len(ch) : h[ch[i]].ro # "unset"} IN
    IF set = {} THEN "unset" ELSE h[ch[CHOOSE i \in set : \A j \in set : i <= j]].ro
\* the operations that look at the flag before anything else
FlagFirst == {"append", "insert", "pop", "sort", "clear"}

\* C7: the flag lookup on any node gives the value set on the nearest node of
\* its parent chain that has the flag, and unset when none has; nothing is
\* cached, so an operation guarded by the flag is refused exactly when the
\* nearest flag is true at the time of the call, whatever it was before.
C7_NearestFlag ==
    /\ \A a \in Addrs : heap[a].type # "free" => GetFlag(heap, a) = NearestFlag(heap, a)
    /\ last.op \in FlagFirst =>
           (last.err = "ReadonlyConfigError" <=> NearestFlag(pre, last.c) = "true")

\* an append went through on a container with no flag whose parent says false
\* and whose grandparent says true
C7_Witness ==
    /\ last.op = "append" /\ last.err = "none"
    /\ pre[last.c].ro = "unset" /\ pre[last.c].parent # 0
    /\ pre[pre[last.c].parent].ro = "false" /\ pre[pre[last.c].parent].parent # 0
    /\ pre[pre[pre[last.c].parent].parent].ro = "true"

\* the objects of the tree at a
Tree(h, a) == {a} \cup Descendants(h, a)
\* every item of every container of the tree at a has that container as parent
ParentsWithin(h, a) ==
    \A p \in Tree(h, a) : \A i \in 1..Len(h[p].content) : h[h[p].content[i]].parent = p

\* C6: deepcopy(c) returns a new container structurally equal to c, made of
\* new objects only, in which every node at every depth has the container of
\* the copy that holds it as parent; c and every object alive before are as
\* they were; two containers the caller holds never share a node, and a write
\* to one leaves every other as it was.
C6_DeepCopy ==
    /\ (last.op = "deepcopy" /\ last.err = "none") =>
           /\ Tree(heap, last.res) \cap Tree(pre, last.c) = {}
           /\ \A d \in Tree(heap, last.res) : pre[d].type = "free"
           /\ View(heap, last.res) = View(pre, last.c)
           /\ ParentsWithin(heap, last.res)
           /\ \A a \in Addrs : pre[a].type # "free" => heap[a] = pre[a]
    /\ \A i, j \in DOMAIN roots :
           i # j => Tree(heap, roots[i]) \cap Tree(heap, roots[j]) = {}
    /\ last.op \in Mutating \cup {"set_flag"} =>
           \A i \in DOMAIN roots :
               last.c \notin Tree(pre, roots[i]) =>
                   \A a \in Tree(pre, roots[i]) : heap[a] = pre[a]

\* a flagged container holding a container that holds a number has been copied
C6_Witness ==
    /\ last.op = "deepcopy" /\ last.err = "none"
    /\ heap[last.res].ro = "true"
    /\ \E d \in Descendants(heap, last.res) :
           heap[d].type = "val" /\ heap[d].parent # last.res

\* C2: insert(index, item) on a container that is not read-only, for every
\* integer index and every item: when it returns, the content is the content
\* before the call with one new element at the insertion position and the
\* others in their order; when it raises, the content is as before the call.
C2_InsertAllOrNothing ==
    (last.op = "insert" /\ ~ReadOnly(pre, last.c) /\ IsInt(last.idx)) =>
        LET old == Items(pre, last.c)
            new == Items(heap, last.c)
            p == InsertPos(last.idx.n, Len(old)) + 1 IN
        IF last.err = "none"
        THEN Len(new) = Len(old) + 1 /\ RemoveAt(new, p) = old
        ELSE new = old

\* the errors a failed write may end with
WriteErrors ==
    {"ValidationError", "UnsupportedValueType", "UnsupportedKeyType",
     "ReadonlyConfigError", "MissingMandatoryValue"}

\* C3: when set_item, append, extend, pop, remove, clear or sort raises one of
\* the write errors, the container's content after the call equals its content
\* before it; an extend whose k-th item fails leaves none of the earlier
\* items appended.
C3_NoPartialMutation ==
    (last.op \in Mutating \ {"insert"} /\ last.err \in WriteErrors) =>
        Items(heap, last.c) = Items(pre, last.c)

\* C5: in every state every element of every live container has that
\* container as its parent, so no node is an element of two containers.
C5_ParentIsContainer ==
    \A a \in Lists(heap) : \A i \in 1..Len(heap[a].content) :
        /\ heap[heap[a].content[i]].parent = a
        /\ \A b \in Lists(heap) : \A j \in 1..Len(heap[b].content) :
               heap[b].content[j] = heap[a].content[i] => (b = a /\ j = i)

\* a value canonical for an Integer node: an integer, none, or a placeholder
\* string kept verbatim
CanonicalInteger(v) == v.t = "int" \/ v = None \/ IsPlaceholder(v)
\* every scalar element of the container is an Integer node holding such a value
WellTyped(h, c) ==
    \A i \in 1..Len(h[c].content) :
        LET e == h[h[c].content[i]] IN
        e.type = "val" => e.kind = "Integer" /\ CanonicalInteger(e.val)
\* the write paths, the constructor included
WritePaths == {"create", "append", "extend", "insert", "set_item"}
\* the container a write was made on
Written == IF last.op = "create" THEN last.res ELSE last.c

\* C8: a successful write through any write path on a container of element
\* type Integer whose scalar elements are all Integer nodes leaves it so; and
\* an append, insert or set_item (at an integer index) of a value that cannot
\* be made an integer fails with ValidationError or UnsupportedValueType.
C8_ElementType ==
    /\ (/\ last.op \in WritePaths /\ last.err = "none"
        /\ heap[Written].etype = "Integer"
        /\ last.op # "create" => WellTyped(pre, Written))
           => WellTyped(heap, Written)
    /\ (/\ last.op \in {"append", "insert", "set_item"}
        /\ pre[last.c].etype = "Integer"
        /\ last.op # "append" => IsInt(last.idx) /\ Pos(last.idx.n, Len(pre[last.c].content)) # 0
        /\ ~IsPlaceholder(last.x) /\ last.x # None
        /\ ~ValidateAndConvert("Integer", last.x).ok)
           => last.err \in {"ValidationError", "UnsupportedValueType"}

\* C9: set_item, insert and pop with an index that is no integer fail with
\* UnsupportedKeyType and leave the container unchanged.
C9_NonIntegerIndex ==
    (last.op \in {"set_item", "insert", "pop"} /\ ~IsInt(last.idx)) =>
        last.err = "UnsupportedKeyType" /\ heap = pre

(***************************************************************************)
(* Equality of Float nodes: FloatNode.__eq__                               *)
(***************************************************************************)
\* the right-hand side of ==: a raw value, or a node (isinstance(other,
\* ValueNode)) with the value it holds
RawOperand(x) == [isNode |-> FALSE, v |-> x]
NodeOperand(nd) == [isNode |-> TRUE, v |-> nd.val]
\* other is None: the operand itself, a node is never None
OtherIsNone(o) == ~o.isNode /\ o.v = None

\* FloatNode.__eq__(self, other); other_val is o.v in both cases
FloatEq(nd, o) ==
    IF nd.val = None /\ OtherIsNone(o) THEN TRUE
    ELSE IF nd.val = None /\ ~OtherIsNone(o) THEN FALSE
    ELSE IF nd.val # None /\ OtherIsNone(o) THEN FALSE
    ELSE PyEq(nd.val, o.v) \/ (IsNaN(nd.val) /\ IsNaN(o.v))

\* node == x, for a Float node and a raw value x
NodeCompareRaw ==
    \E x \in NodeInputs :
        /\ node.kind = "Float"
        /\ nlast' = [op |-> "eq", x |-> x, err |-> "none", other |-> "raw",
                     res |-> FloatEq(node, RawOperand(x)),
                     back |-> FloatEq(node, RawOperand(x))]
        /\ UNCHANGED <<node, declared, listVars>>

\* node == FloatNode(x) and FloatNode(x) == node, for two Float nodes
NodeCompareNode ==
    \E x \in NodeInputs :
        LET r == Construct("Float", TRUE, x) IN
        /\ node.kind = "Float"
        /\ r.err = "none"
        /\ nlast' = [op |-> "eq", x |-> r.nd.val, err |-> "none", other |-> "node",
                     res |-> FloatEq(node, NodeOperand(r.nd)),
                     back |-> FloatEq(r.nd, NodeOperand(node))]
        /\ UNCHANGED <<node, declared, listVars>>

EqNext == NodeConstruct \/ NodeSetValue \/ NodeCompareRaw \/ NodeCompareNode

SpecEq == NodeInit /\ [][EqNext]_vars

\* equality of held values: Python's ==, with NaN equal to NaN (and none to none)
HeldEq(v, w) == PyEq(v, w) \/ (IsNaN(v) /\ IsNaN(w))

\* C11: a Float node equals another Float node exactly when their held values
\* are equal, NaN counting as equal to NaN and none as equal to none; it
\* equals a raw value v exactly when its held value equals v under the same
\* rule; and two nodes compare the same in both directions.
C11_FloatEquality ==
    nlast.op = "eq" =>
        /\ nlast.res = HeldEq(node.val, nlast.x)
        /\ nlast.other = "node" => nlast.back = nlast.res

====
